---- MODULE Spec2Model ----
(***************************************************************************)
(* hiccup!: a macro_rules! macro that rewrites a nested description        *)
(* tag{key=>value,...}[children] into a straight-line sequence of          *)
(* `let _ = write!(w, ...)` statements (src/src/lib.rs).                    *)
(*                                                                         *)
(* Text is a sequence of one-character strings.  A macro invocation is a   *)
(* sequence of token trees; the rules of the macro rewrite the pending     *)
(* invocations of a call until only write statements are left, and the     *)
(* write statements then run in order against the sink.                    *)
(***************************************************************************)
EXTENDS Naturals, Sequences, FiniteSets, TLC

\* Total weight of the descriptions rendered into one sink: one per Node
\* and one per attribute.
MaxSize == 3

\* The same total for a sink whose writes can fail.
MaxFallibleSize == 2

\* Failed sink writes over the life of one sink.
MaxFailures == 1

-----------------------------------------------------------------------------
(* Text helpers *)

RECURSIVE Concat(_)
Concat(texts) ==
  IF texts = <<>> THEN <<>> ELSE Head(texts) \o Concat(Tail(texts))

IsPrefix(p, s) ==
  /\ Len(p) <= Len(s)
  /\ SubSeq(s, 1, Len(p)) = p

Drop(s, n) == SubSeq(s, n + 1, Len(s))

-----------------------------------------------------------------------------
(* The description: Nodes, as the caller writes them *)

Names == { <<"a">>, <<"b", "r">> }

\* A literal expression: a string literal "x" or a number 1.
StrLit(s) == [lk |-> "str", s |-> s]
NumLit(s) == [lk |-> "num", s |-> s]

\* Attribute pairs key => value; the key repeats when a pair repeats.
Pairs == { [key |-> <<"k">>, val |-> StrLit(<<"v">>)],
           [key |-> <<"c">>, val |-> NumLit(<<"1">>)] }

ChildLits == { StrLit(<<"x">>) }

Literal(l) ==
  [k |-> "lit", lit |-> l, name |-> <<>>,
   hasAttrs |-> FALSE, attrs |-> <<>>, hasKids |-> FALSE, kids |-> <<>>]

Element(n, ha, as, hk, ks) ==
  [k |-> "elem", lit |-> StrLit(<<>>), name |-> n,
   hasAttrs |-> ha, attrs |-> as, hasKids |-> hk, kids |-> ks]

AttrSeqs(n) == [1..n -> Pairs]

\* The Nodes of weight w, given the table t of the Nodes and sequences of
\* every smaller weight (t[v + 1] is the entry of weight v).
NodesOfWeight(t, w) ==
  (IF w = 1 THEN { Literal(l) : l \in ChildLits } ELSE {})
  \cup
  UNION { UNION { UNION {
      LET r == w - 1 - a IN
      IF r = 0
        THEN { Element(n, ha, as, hk, <<>>) : hk \in BOOLEAN }
        ELSE { Element(n, ha, as, TRUE, ks) : ks \in t[r + 1].forests }
      : ha \in (IF a = 0 THEN BOOLEAN ELSE {TRUE}) }
      : as \in AttrSeqs(a) }
      : n \in Names, a \in 0..(w - 1) }

\* The Node sequences of weight w: a first Node of weight m and a rest.
ForestsOfWeight(t, nodes, w) ==
  UNION { { <<n>> \o f : n \in (IF m = w THEN nodes ELSE t[m + 1].nodes),
                         f \in t[w - m + 1].forests }
          : m \in 1..w }

RECURSIVE ForestTable(_)
ForestTable(w) ==
  IF w = 0 THEN << [nodes |-> {}, forests |-> { <<>> }] >>
  ELSE LET t     == ForestTable(w - 1)
           nodes == NodesOfWeight(t, w)
       IN  Append(t, [nodes |-> nodes, forests |-> ForestsOfWeight(t, nodes, w)])

MaxWeight == IF MaxSize >= MaxFallibleSize THEN MaxSize ELSE MaxFallibleSize

Table == ForestTable(MaxWeight)

Forests == [w \in 0..MaxWeight |-> Table[w + 1].forests]

RECURSIVE Weight(_)
Weight(f) ==
  IF f = <<>> THEN 0
  ELSE 1 + Len(Head(f).attrs) + Weight(Head(f).kids) + Weight(Tail(f))

-----------------------------------------------------------------------------
(* Token trees: what the macro matches on *)

Ident(n)     == [t |-> "ident", s |-> n, lk |-> "", attrs |-> <<>>, inner |-> <<>>]
LitTok(l)    == [t |-> "lit", s |-> l.s, lk |-> l.lk, attrs |-> <<>>, inner |-> <<>>]
Brace(as)    == [t |-> "brace", s |-> <<>>, lk |-> "", attrs |-> as, inner |-> <<>>]
Bracket(tts) == [t |-> "bracket", s |-> <<>>, lk |-> "", attrs |-> <<>>, inner |-> tts]

\* The token trees of a sequence of Nodes: the members one after another,
\* an Element as its name, its {attributes} if any and its [children] if any.
RECURSIVE Tokens(_)
Tokens(f) ==
  IF f = <<>> THEN <<>>
  ELSE LET n == Head(f) IN
       (IF n.k = "lit" THEN << LitTok(n.lit) >>
        ELSE << Ident(n.name) >>
             \o (IF n.hasAttrs THEN << Brace(n.attrs) >> ELSE <<>>)
             \o (IF n.hasKids THEN << Bracket(Tokens(n.kids)) >> ELSE <<>>))
       \o Tokens(Tail(f))

-----------------------------------------------------------------------------
(* The caller's scope and the two conversions the macro uses *)

\* An identifier used as an expression is resolved in the caller's scope:
\* it is unbound there, or bound to a value that displays as some text.
Unbound == [bound |-> FALSE, val |-> <<>>]
Envs == { Unbound, [bound |-> TRUE, val |-> <<"y">>] }

\* stringify!: the source text of the tokens; a string literal keeps its quotes.
Stringify(tok) ==
  IF tok.t = "lit" /\ tok.lk = "str" THEN <<"\"">> \o tok.s \o <<"\"">>
  ELSE tok.s

Display_Quoted(tok, e) ==
  IF tok.t = "ident" THEN e.val ELSE Stringify(tok)

\* "{}": the Display form of the value of the expression; a string displays
\* as its content, an identifier as the value it is bound to.
Display(tok, e) ==
  IF tok.t = "ident" THEN e.val ELSE tok.s

\* Whether write!(w, "{}", tok) type-checks in the caller's scope.
Displayable(tok, e) ==
  CASE tok.t = "lit"   -> TRUE
    [] tok.t = "ident" -> e.bound
    [] OTHER           -> FALSE

-----------------------------------------------------------------------------
(* The statements an invocation expands to *)

W(text) == [op |-> "write", text |-> text, toks |-> <<>>]
M(toks) == [op |-> "macro", text |-> <<>>, toks |-> toks]

\* The patterns of the five rules, each on its own.
PatEmpty(toks)  == toks = <<>>
PatSingle(toks) == Len(toks) = 1
PatAttrsChildren(toks) ==
  /\ Len(toks) >= 3
  /\ toks[1].t = "ident" /\ toks[2].t = "brace" /\ toks[3].t = "bracket"
PatAttrs(toks) ==
  /\ Len(toks) >= 2
  /\ toks[1].t = "ident" /\ toks[2].t = "brace"
PatChildren(toks) ==
  /\ Len(toks) >= 2
  /\ toks[1].t = "ident" /\ toks[2].t = "bracket"

\* macro_rules! tries the rules in the order they are written.
RuleOf(toks) ==
  CASE PatEmpty(toks)         -> "empty"
    [] PatSingle(toks)        -> "single"
    [] PatAttrsChildren(toks) -> "attrs_children"
    [] PatAttrs(toks) /\ ~PatAttrsChildren(toks) -> "attrs"
    [] PatChildren(toks)      -> "children"
    [] OTHER                  -> "none"

RECURSIVE AttrWrites_Reversed(_)
AttrWrites_Reversed(as) ==
  IF as = <<>> THEN <<>>
  ELSE AttrWrites_Reversed(Tail(as))
       \o << W(<<" ">> \o Stringify(Ident(Head(as).key)) \o <<"=">>),
             W(Stringify(LitTok(Head(as).val))) >>

\* $( write!(" {}=", key); write!("{}", value); )*
RECURSIVE AttrWrites(_)
AttrWrites(as) ==
  IF as = <<>> THEN <<>>
  ELSE << W(<<" ">> \o Stringify(Ident(Head(as).key)) \o <<"=">>),
          W(Stringify(LitTok(Head(as).val))) >>
       \o AttrWrites(Tail(as))

RuleEmpty_Again(toks) == << M(toks) >>

RuleEmpty(toks) == <<>>

RuleSingle(toks, e) == << W(Display(toks[1], e)) >>

RuleAttrsChildren(toks) ==
  << W(<<"<">> \o Stringify(toks[1])) >>
  \o AttrWrites(toks[2].attrs)
  \o << W(<<">">>),
        M(toks[3].inner),
        W(<<"<", "/">> \o Stringify(toks[1]) \o <<">">>),
        M(Drop(toks, 3)) >>

RuleAttrs(toks) ==
  << W(<<"<">> \o Stringify(toks[1])) >>
  \o AttrWrites(toks[2].attrs)
  \o << W(<<"/", ">">>),
        M(Drop(toks, 2)) >>

RuleChildren_Unclosed(toks) ==
  << W(<<"<">> \o Stringify(toks[1]) \o <<">">>),
     M(toks[2].inner),
     M(Drop(toks, 2)) >>

RuleChildren(toks) ==
  << W(<<"<">> \o Stringify(toks[1]) \o <<">">>),
     M(toks[2].inner),
     W(<<"<", "/">> \o Stringify(toks[1]) \o <<">">>),
     M(Drop(toks, 2)) >>

-----------------------------------------------------------------------------
(* The sink *)

WriteStr_Overwrite(s, text) == text

\* A successful write appends the text at the end.
WriteStr(s, text) == s \o text

AfterWrite_Propagate(w, ok) == IF ok THEN Tail(w) ELSE <<>>

\* `let _ =` drops the Result of the write; the next statement runs.
AfterWrite(w, ok) == Tail(w)

-----------------------------------------------------------------------------
(* A whole call as a function of its tokens *)

\* Whether every invocation the tokens lead to matches a rule and type-checks.
RECURSIVE Accepted(_, _)
Accepted(toks, e) ==
  LET rule == RuleOf(toks) IN
  CASE rule = "empty"          -> TRUE
    [] rule = "single"         -> Displayable(toks[1], e)
    [] rule = "attrs_children" -> Accepted(toks[3].inner, e) /\ Accepted(Drop(toks, 3), e)
    [] rule = "attrs"          -> Accepted(Drop(toks, 2), e)
    [] rule = "children"       -> Accepted(toks[2].inner, e) /\ Accepted(Drop(toks, 2), e)
    [] OTHER                   -> FALSE

\* The statements one invocation is replaced by.
Expansion(toks, e) ==
  LET rule == RuleOf(toks) IN
  CASE rule = "empty"          -> RuleEmpty(toks)
    [] rule = "single" /\ Displayable(toks[1], e) -> RuleSingle(toks, e)
    [] rule = "attrs_children" -> RuleAttrsChildren(toks)
    [] rule = "attrs"          -> RuleAttrs(toks)
    [] rule = "children"       -> RuleChildren(toks)
    [] OTHER                   -> <<>>

\* The texts written, in order, by statements run to the end.
RECURSIVE WritesOf(_, _)
WritesOf(stmts, e) ==
  IF stmts = <<>> THEN <<>>
  ELSE IF Head(stmts).op = "write"
    THEN << Head(stmts).text >> \o WritesOf(Tail(stmts), e)
    ELSE WritesOf(Expansion(Head(stmts).toks, e) \o Tail(stmts), e)

\* What a call on these Nodes appends to a sink that takes every write.
RenderText(f, e) == Concat(WritesOf(<< M(Tokens(f)) >>, e))

-----------------------------------------------------------------------------
VARIABLES
  input,     \* the Node sequence of the current call
  env,       \* the caller's scope of the current call
  work,      \* the statements of the current call not yet expanded or run
  sink,      \* the content of the sink
  before,    \* the content of the sink when the current call started
  attempts,  \* the texts of the writes issued by the current call, in order
  status,    \* "idle", "active", "done" or "rejected"
  result,    \* what the call returned
  failures,  \* writes that failed so far
  budget,    \* weight still available to later calls
  fallible   \* whether the sink can fail a write

vars == << input, env, work, sink, before, attempts, status, result,
           failures, budget, fallible >>

InitWith(f) ==
  /\ input = <<>>
  /\ env = Unbound
  /\ work = <<>>
  /\ sink = <<>>
  /\ before = <<>>
  /\ attempts = <<>>
  /\ status = "idle"
  /\ result = "none"
  /\ failures = 0
  /\ budget = IF f THEN MaxFallibleSize ELSE MaxSize
  /\ fallible = f

\* A String sink: its writes never fail.
Init == InitWith(FALSE)

\* Any fmt::Write sink: a write can fail.
InitFallible == InitWith(TRUE)

MacroIndexes == { i \in 1..Len(work) : work[i].op = "macro" }
HasMacro == MacroIndexes # {}
FirstMacro == CHOOSE i \in MacroIndexes : \A j \in MacroIndexes : i <= j
Pending == work[FirstMacro].toks

\* The pending invocation replaced by its expansion.
Rewrite(stmts) ==
  SubSeq(work, 1, FirstMacro - 1) \o stmts \o Drop(work, FirstMacro)

Expanding(rule) ==
  /\ status = "active"
  /\ HasMacro
  /\ RuleOf(Pending) = rule

Frame == UNCHANGED << input, env, sink, before, attempts, result, failures,
                      budget, fallible >>

\* hiccup!(w, description...) is reached by the caller.  The invocations
\* that share a sink are taken one after another; a refused one ends the
\* behaviour, since the program that holds it does not build.
Invoke ==
  /\ status \in {"idle", "done"}
  /\ \E w \in 0..budget : \E f \in Forests[w] : \E e \in Envs :
       /\ input' = f
       /\ env' = e
       /\ work' = << M(Tokens(f)) >>
       /\ budget' = budget - w
  /\ before' = sink
  /\ attempts' = <<>>
  /\ status' = "active"
  /\ result' = "none"
  /\ UNCHANGED << sink, failures, fallible >>

ExpandEmpty ==
  /\ Expanding("empty")
  /\ work' = Rewrite(RuleEmpty(Pending))
  /\ UNCHANGED status
  /\ Frame

ExpandSingle ==
  /\ Expanding("single")
  /\ Displayable(Pending[1], env)
  /\ work' = Rewrite(RuleSingle(Pending, env))
  /\ UNCHANGED status
  /\ Frame

ExpandAttrsChildren ==
  /\ Expanding("attrs_children")
  /\ work' = Rewrite(RuleAttrsChildren(Pending))
  /\ UNCHANGED status
  /\ Frame

ExpandAttrs ==
  /\ Expanding("attrs")
  /\ work' = Rewrite(RuleAttrs(Pending))
  /\ UNCHANGED status
  /\ Frame

ExpandChildren ==
  /\ Expanding("children")
  /\ work' = Rewrite(RuleChildren(Pending))
  /\ UNCHANGED status
  /\ Frame

\* No rule matches the pending tokens: the build stops, nothing runs.
RejectNoRule ==
  /\ Expanding("none")
  /\ status' = "rejected"
  /\ work' = <<>>
  /\ Frame

\* The single-token rule matched an expression that does not type-check.
RejectExpr ==
  /\ Expanding("single")
  /\ ~Displayable(Pending[1], env)
  /\ status' = "rejected"
  /\ work' = <<>>
  /\ Frame

\* The next write statement runs.
Write ==
  /\ status = "active"
  /\ ~HasMacro
  /\ work # <<>>
  /\ LET text == Head(work).text IN
       /\ attempts' = Append(attempts, text)
       /\ \/ /\ sink' = WriteStr(sink, text)
             /\ work' = AfterWrite(work, TRUE)
             /\ UNCHANGED failures
          \/ /\ fallible
             /\ failures < MaxFailures
             /\ \E n \in 0..Len(text) :
                  /\ n < Len(text)
                  /\ sink' = sink \o SubSeq(text, 1, n)
             /\ work' = AfterWrite(work, FALSE)
             /\ failures' = failures + 1
  /\ UNCHANGED << input, env, before, status, result, budget, fallible >>

\* The block of the outermost expansion ends; its value is ().
Return ==
  /\ status = "active"
  /\ work = <<>>
  /\ status' = "done"
  /\ result' = "unit"
  /\ UNCHANGED << input, env, work, sink, before, attempts, failures,
                  budget, fallible >>

Next ==
  \/ Invoke
  \/ ExpandEmpty
  \/ ExpandSingle
  \/ ExpandAttrsChildren
  \/ ExpandAttrs
  \/ ExpandChildren
  \/ RejectNoRule
  \/ RejectExpr
  \/ Write
  \/ Return

Spec == Init /\ [][Next]_vars

\* The expansion and the statements of a call are straight-line code of one
\* thread: a call that has started keeps going.
Progress ==
  \/ ExpandEmpty \/ ExpandSingle \/ ExpandAttrsChildren \/ ExpandAttrs
  \/ ExpandChildren \/ RejectNoRule \/ RejectExpr \/ Write \/ Return

FairSpec == Spec /\ WF_vars(Progress)

SpecFallible == InitFallible /\ [][Next]_vars

-----------------------------------------------------------------------------
(* Reading the output back: a scan of the appended text for its tags *)

Appended == Drop(sink, Len(before))

RECURSIVE IndexFrom(_, _, _)
IndexFrom(text, c, i) ==
  IF i > Len(text) THEN 0
  ELSE IF text[i] = c THEN i ELSE IndexFrom(text, c, i + 1)

\* The tag whose text between '<' and '>' is body.
TagOf(body) ==
  IF body # <<>> /\ body[1] = "/"
    THEN [kind |-> "close", name |-> Tail(body), attrs |-> <<>>]
    ELSE LET self  == body # <<>> /\ body[Len(body)] = "/"
             inner == IF self THEN SubSeq(body, 1, Len(body) - 1) ELSE body
             sp    == IndexFrom(inner, " ", 1)
         IN  [kind  |-> IF self THEN "self" ELSE "open",
              name  |-> IF sp = 0 THEN inner ELSE SubSeq(inner, 1, sp - 1),
              attrs |-> IF sp = 0 THEN <<>> ELSE Drop(inner, sp - 1)]

RECURSIVE TagsFrom(_, _)
TagsFrom(text, i) ==
  LET lt == IndexFrom(text, "<", i) IN
  IF lt = 0 THEN <<>>
  ELSE LET gt == IndexFrom(text, ">", lt + 1) IN
       IF gt = 0 THEN << [kind |-> "bad", name |-> <<>>, attrs |-> <<>>] >>
       ELSE << TagOf(SubSeq(text, lt + 1, gt - 1)) >> \o TagsFrom(text, gt + 1)

Tags(text) == TagsFrom(text, 1)

IsOpen(tag)  == tag.kind = "open"
IsClose(tag) == tag.kind = "close"
IsSelf(tag)  == tag.kind = "self"
IsBad(tag)   == tag.kind = "bad"
IsHead(tag)  == tag.kind \in {"open", "self"}

\* The stack scan: an open tag is pushed, a close tag must name the top.
RECURSIVE StackScan(_, _)
StackScan(tags, stack) ==
  IF tags = <<>> THEN stack = <<>>
  ELSE LET tag == Head(tags) IN
       CASE tag.kind = "open"  -> StackScan(Tail(tags), << tag.name >> \o stack)
         [] tag.kind = "self"  -> StackScan(Tail(tags), stack)
         [] tag.kind = "close" ->
              /\ stack # <<>>
              /\ Head(stack) = tag.name
              /\ StackScan(Tail(tags), Tail(stack))
         [] OTHER -> FALSE

\* The Elements of a Node sequence in document order.
RECURSIVE Elements(_)
Elements(f) ==
  IF f = <<>> THEN <<>>
  ELSE (IF Head(f).k = "elem" THEN << Head(f) >> \o Elements(Head(f).kids) ELSE <<>>)
       \o Elements(Tail(f))

WithChildren(n)    == n.hasKids
WithoutChildren(n) == ~n.hasKids
\* An Element written with {attributes}, [children] or both.
Delimited(n)       == n.hasAttrs \/ n.hasKids

Finished == status = "done"
\* The call ran to its end or was refused.
Settled == status \in {"done", "rejected"}

-----------------------------------------------------------------------------
(* C1 *)

\* C1: once a call has finished, the text it appended has no unterminated
\* tag, as many close tags as open tags, one open tag per Element with a
\* children block, and the stack scan of its tags succeeds.
C1_TagBalance ==
  Finished =>
    LET tags == Tags(Appended) IN
    /\ SelectSeq(tags, IsBad) = <<>>
    /\ Len(SelectSeq(tags, IsOpen)) = Len(SelectSeq(tags, IsClose))
    /\ Len(SelectSeq(tags, IsOpen)) = Len(SelectSeq(Elements(input), WithChildren))
    /\ StackScan(tags, <<>>)

\* An Element nested in an Element of another name, both with children, and
\* a sibling after them.
C1_Witness ==
  /\ Finished
  /\ Len(input) = 2
  /\ input[1].hasKids /\ Len(input[1].kids) = 1
  /\ input[1].kids[1].hasKids
  /\ input[1].kids[1].name # input[1].name
  /\ input[2].k = "elem" /\ ~input[2].hasKids

-----------------------------------------------------------------------------
(* C2 *)

\* C2: once a call has finished, the tags that start an Element correspond
\* one to one, in document order, to the Element occurrences of the input; an
\* occurrence without a children block is a tag ending in '/>', one with a
\* children block is an open tag, and there is one close tag per occurrence
\* with a children block.
C2_SelfClosingExclusive ==
  Finished =>
    LET tags  == Tags(Appended)
        heads == SelectSeq(tags, IsHead)
        els   == Elements(input)
    IN  /\ Len(heads) = Len(els)
        /\ \A i \in 1..Len(els) :
             i <= Len(heads) =>
               /\ heads[i].name = els[i].name
               /\ IsSelf(heads[i]) <=> ~els[i].hasKids
        /\ Len(SelectSeq(tags, IsClose)) = Len(SelectSeq(els, WithChildren))

-----------------------------------------------------------------------------
(* C3 *)

\* A value as it is declared: a string with its quotes, a number as written.
Declared(v) == IF v.lk = "str" THEN <<"\"">> \o v.s \o <<"\"">> ELSE v.s

RECURSIVE AttrText(_)
AttrText(as) ==
  IF as = <<>> THEN <<>>
  ELSE <<" ">> \o Head(as).key \o <<"=">> \o Declared(Head(as).val)
       \o AttrText(Tail(as))

\* C3: once a call has finished, the i-th tag that starts an Element carries
\* the name of the i-th Element written with attributes or children, and
\* between the name and the end of the tag exactly ' k=v' for each declared
\* pair, in declaration order.
C3_AttributeOrder ==
  Finished =>
    LET heads == SelectSeq(Tags(Appended), IsHead)
        els   == SelectSeq(Elements(input), Delimited)
    IN  /\ Len(heads) = Len(els)
        /\ \A i \in 1..Len(els) :
             /\ heads[i].name = els[i].name
             /\ heads[i].attrs = AttrText(els[i].attrs)

\* One Element with two different pairs.
C3_Witness ==
  /\ Finished
  /\ Len(input) = 1
  /\ Len(input[1].attrs) = 2
  /\ input[1].attrs[1] # input[1].attrs[2]

-----------------------------------------------------------------------------
(* C4 *)

\* C4: a call on two Nodes A, B with an empty sink is carried out and
\* leaves what a call on A alone appends followed by what a call on B alone
\* appends.
C4_SequenceConcatenation ==
  (Settled /\ before = <<>> /\ Len(input) = 2) =>
    /\ Finished
    /\ sink = RenderText(<< input[1] >>, env) \o RenderText(<< input[2] >>, env)

-----------------------------------------------------------------------------
(* C5 *)

RECURSIVE Copies(_, _)
Copies(x, n) == IF n = 0 THEN <<>> ELSE << x >> \o Copies(x, n - 1)

\* C5: a call on n copies of the Literal "x" with an empty sink is carried
\* out and leaves "x" n times.
C5_LiteralHead ==
  \A n \in 0..MaxSize :
    (Settled /\ before = <<>> /\ input = Copies(Literal(StrLit(<<"x">>)), n)) =>
      /\ Finished
      /\ sink = Concat(Copies(<<"x">>, n))

-----------------------------------------------------------------------------
(* C6 *)

\* C6: a call on the single Element br without attributes and without a
\* children block, with an empty sink, is carried out and leaves '<br/>'.
C6_BareElement ==
  (Settled /\ before = <<>>
     /\ input = << Element(<<"b", "r">>, FALSE, <<>>, FALSE, <<>>) >>) =>
    /\ Finished
    /\ sink = <<"<", "b", "r", "/", ">">>

-----------------------------------------------------------------------------
(* C7 *)

\* C7: every step leaves the old content of the sink as a prefix of the
\* new one, and a call that finishes leaves the content the sink had when the
\* call started followed by what the call appends to an empty sink.
C7_AppendOnly ==
  [][ /\ IsPrefix(sink, sink')
      /\ (status' = "done" => sink' = before' \o RenderText(input', env')) ]_vars

\* A second call has finished on a sink the first one wrote to.
C7_Witness ==
  /\ Finished
  /\ before # <<>>
  /\ sink # before

-----------------------------------------------------------------------------
(* C8 *)

\* Every Element has attributes or children; a Literal is the last member.
RECURSIVE ReferenceShape(_)
ReferenceShape(f) ==
  \A i \in 1..Len(f) :
    IF f[i].k = "lit" THEN i = Len(f)
    ELSE Delimited(f[i]) /\ ReferenceShape(f[i].kids)

RECURSIVE Reference(_)
Reference(f) ==
  IF f = <<>> THEN <<>>
  ELSE LET n == Head(f) IN
       (IF n.k = "lit" THEN n.lit.s
        ELSE IF n.hasKids
          THEN <<"<">> \o n.name \o AttrText(n.attrs) \o <<">">>
               \o Reference(n.kids)
               \o <<"<", "/">> \o n.name \o <<">">>
          ELSE <<"<">> \o n.name \o AttrText(n.attrs) \o <<"/", ">">>)
       \o Reference(Tail(f))

\* C8: a call on Nodes of the reference shape with an empty sink is carried
\* out and leaves the reference serialization of the Nodes.
C8_ReferenceSerialization ==
  (Settled /\ before = <<>> /\ ReferenceShape(input)) =>
    /\ Finished
    /\ sink = Reference(input)

\* An Element with an attribute and a Literal child.
C8_Witness ==
  /\ Finished
  /\ before = <<>>
  /\ Len(input) = 1
  /\ Len(input[1].attrs) = 1
  /\ input[1].hasKids /\ Len(input[1].kids) = 1
  /\ input[1].kids[1].k = "lit"

-----------------------------------------------------------------------------
(* C9 *)

-----------------------------------------------------------------------------
(* C10 *)

RECURSIVE Texts(_)
Texts(stmts) ==
  IF stmts = <<>> THEN <<>> ELSE << Head(stmts).text >> \o Texts(Tail(stmts))

\* C10: whichever writes failed, the writes issued so far followed by the
\* writes still to run are the writes of the call on a sink that takes every
\* write, and a call that finishes has issued all of them and returns ().
C10_WritesIndependentOfFailures ==
  (status \in {"active", "done"} /\ ~HasMacro) =>
    /\ attempts \o Texts(work) = WritesOf(<< M(Tokens(input)) >>, env)
    /\ Finished => (work = <<>> /\ result = "unit")

\* A call finished although its first write failed and left nothing.
C10_Witness ==
  /\ Finished
  /\ fallible
  /\ failures = 1
  /\ before = <<>>
  /\ Len(attempts) >= 3
  /\ sink = Concat(Tail(attempts))

====
